---- MODULE Spec2Model ----
(***************************************************************************)
(* Model of the MCTS retrosynthesis tree builder                           *)
(* (askcos/retrosynthetic/mcts/v2/tree_builder.py).                        *)
(*                                                                         *)
(* Chemicals (SMILES strings) are the integers 1..NumChems.  A reaction    *)
(* identifier "<r1>.<r2>>>p" is the pair <<reactant_list, p>>: no SMILES   *)
(* of a single reactant holds '.' or '>>', so the joined string and the    *)
(* pair determine each other.                                              *)
(*                                                                         *)
(* Real numbers (probabilities, fast filter scores, UCB constants) are     *)
(* integers in units of 1/Scale.  A UCB score is kept exactly, as          *)
(* n/d + k*sqrt(visit_count), and two scores are compared exactly.         *)
(***************************************************************************)
EXTENDS Integers, Sequences, FiniteSets, TLC

\* ---- bounds of the model ------------------------------------------------
NumChems == 3
NumTemplates == 2
MaxOutcomes == 2
MaxReactants == 2
MaxRollouts == 6
MaxClears == 1

\* ---- program constants (units of 1/Scale where real valued) -------------
Scale == 200
template_max_count == 100
template_max_cum_prob == 199
fast_filter_threshold == 150
exploration_weight == 1
max_ppg == 10
UnexploredPenalty == 20
None == -1
max_chemicals == None
max_reactions == None

VARIABLES target, chemicals, reactions, tree, max_branching, max_depth, pc, rollouts,
          selected, clears, fresh, passed_filter

vars == <<target, chemicals, reactions, tree, max_branching, max_depth, pc, rollouts,
          selected, clears, fresh, passed_filter>>

\* ---- the adapters' value sets -------------------------------------------
Chems == 1..NumChems
Targets == {1}
Prices == {None, 5}
FilterScores == {100, 180}
BranchingOptions == {0, 1, 2}
DepthOptions == {1, 2, 3}

RECURSIVE SumSeq(_)
SumSeq(s) == IF s = <<>> THEN 0 ELSE Head(s) + SumSeq(Tail(s))

Range(s) == {s[i] : i \in DOMAIN s}

SeqsUpTo(S, lo, hi) == UNION {[1..k -> S] : k \in lo..hi}

\* predict(smiles, max_count, max_cum_prob): probabilities sorted descending,
\* cut at the count and cumulative-probability caps.  The template indices
\* returned are 1..k: templates(c)[t] is the probability at position t, and
\* the probability of a rank is fixed (0.6, 0.3, 0.05, then 0.005 each).
ProbOfRank(i) == IF i = 1 THEN 120 ELSE IF i = 2 THEN 60 ELSE IF i = 3 THEN 10 ELSE 1

TemplateLists ==
    {p \in {[i \in 1..k |-> ProbOfRank(i)] : k \in 0..NumTemplates} :
        /\ Len(p) <= template_max_count
        /\ SumSeq(p) <= template_max_cum_prob
        /\ \A i \in 1..(Len(p) - 1) : p[i] >= p[i + 1]}

\* apply_one_template: a list of at most MaxOutcomes outcomes, each a
\* non-empty reactant list, of at most MaxReactants reactants in all
ReactantLists == SeqsUpTo(Chems, 1, MaxReactants)
PrecursorLists ==
    {p \in SeqsUpTo(ReactantLists, 0, MaxOutcomes) :
        SumSeq([i \in DOMAIN p |-> Len(p[i])]) <= MaxReactants}

\* ---- the graph (nx.DiGraph) ---------------------------------------------
\* tree.chem / tree.rxn: node attributes; tree.succ / tree.rsucc: adjacency
\* of chemical and of reaction nodes, in insertion order.
EmptyTree == [chem |-> <<>>, rxn |-> <<>>, succ |-> <<>>, rsucc |-> <<>>]

InList(x, s) == \E i \in DOMAIN s : s[i] = x

out_degree_chem(s, c) == Len(s.tree.succ[c])
out_degree_rxn(s, r) == Len(s.tree.rsucc[r])

is_terminal(ppg) == max_ppg # None /\ ppg # None /\ ppg # 0 /\ ppg <= max_ppg

is_chemical_done(s, smiles) == s.tree.chem[smiles].done

is_reaction_done(s, r) ==
    /\ out_degree_rxn(s, r) > 0
    /\ \A c \in Range(s.tree.rsucc[r]) : is_chemical_done(s, c)

\* the recomputation without its first branch (terminal)
chemical_done_value_ignores_terminal(s, smiles) ==
    LET data == s.tree.chem[smiles] IN
    IF Len(data.templates) = 0 THEN TRUE
    ELSE IF data.min_depth # None /\ data.min_depth >= max_depth THEN TRUE
    ELSE IF \/ out_degree_chem(s, smiles) >= max_branching
            \/ Len(data.explored) = Len(data.templates)
         THEN \A r \in Range(s.tree.succ[smiles]) : out_degree_rxn(s, r) > 0
                 /\ \A c \in Range(s.tree.rsucc[r]) : s.tree.chem[c].done
         ELSE FALSE

\* the recomputation with a last branch that reads the flag it replaces
chemical_done_value_reads_done(s, smiles) ==
    LET data == s.tree.chem[smiles] IN
    IF data.terminal THEN TRUE
    ELSE IF Len(data.templates) = 0 THEN TRUE
    ELSE IF data.min_depth # None /\ data.min_depth >= max_depth THEN TRUE
    ELSE IF \/ out_degree_chem(s, smiles) >= max_branching
            \/ Len(data.explored) = Len(data.templates)
         THEN \A r \in Range(s.tree.succ[smiles]) : out_degree_rxn(s, r) > 0
                 /\ \A c \in Range(s.tree.rsucc[r]) : s.tree.chem[c].done
         ELSE ~ data.done

\* the value is_chemical_done(smiles, update=True) computes
chemical_done_value(s, smiles) ==
    LET data == s.tree.chem[smiles] IN
    IF data.terminal THEN TRUE
    ELSE IF Len(data.templates) = 0 THEN TRUE
    ELSE IF data.min_depth # None /\ data.min_depth >= max_depth THEN TRUE
    ELSE IF \/ out_degree_chem(s, smiles) >= max_branching
            \/ Len(data.explored) = Len(data.templates)
         THEN \A r \in Range(s.tree.succ[smiles]) : is_reaction_done(s, r)
         ELSE FALSE

is_chemical_done_update(s, smiles) ==
    [s EXCEPT !.tree.chem[smiles].done = chemical_done_value(s, smiles)]

create_chemical_node(s, smiles, templates, purchase_price) ==
    LET data == [explored |-> <<>>,
                 min_depth |-> None,
                 purchase_price |-> purchase_price,
                 templates |-> templates,
                 terminal |-> is_terminal(purchase_price),
                 visit_count |-> 0,
                 done |-> FALSE]
        s1 == [chemicals |-> Append(s.chemicals, smiles),
               reactions |-> s.reactions,
               tree |-> [s.tree EXCEPT !.chem = (smiles :> data) @@ @,
                                       !.succ = (smiles :> <<>>) @@ @]]
    IN is_chemical_done_update(s1, smiles)

\* _initialize without the override of terminal and done
_initialize_keeps_price(s, t, templates, purchase_price) ==
    LET s1 == create_chemical_node(s, t, templates, purchase_price)
    IN [s1 EXCEPT !.tree.chem[t].visit_count = @ + 1]

_initialize(s, t, templates, purchase_price) ==
    LET s1 == create_chemical_node(s, t, templates, purchase_price)
    IN [s1 EXCEPT !.tree.chem[t].terminal = FALSE,
                  !.tree.chem[t].done = FALSE,
                  !.tree.chem[t].visit_count = @ + 1]

done(s) ==
    \/ is_chemical_done(s, target)
    \/ (max_chemicals # None /\ Len(s.chemicals) >= max_chemicals)
    \/ (max_reactions # None /\ Len(s.reactions) >= max_reactions)

\* ---- UCB scores ---------------------------------------------------------
\* A score is n/d + k*sqrt(v), v the visit count of the chemical whose
\* options are scored (d > 0).  ScoreGE(a, b, v) is a >= b, exactly.
ScoreGE(a, b, v) ==
    LET A == a.n * b.d - b.n * a.d
        K == (a.k - b.k) * a.d * b.d
    IN IF A >= 0 /\ K >= 0 THEN TRUE
       ELSE IF A < 0 /\ K <= 0 THEN FALSE
       ELSE IF A < 0 THEN K * K * v >= A * A
       ELSE A * A >= K * K * v

\* list.sort(key=score, reverse=True): stable, descending
RECURSIVE InsertDesc(_, _, _)
InsertDesc(x, sorted, v) ==
    IF Len(sorted) = 0 THEN <<x>>
    ELSE IF ScoreGE(Head(sorted).score, x.score, v)
         THEN <<Head(sorted)>> \o InsertDesc(x, Tail(sorted), v)
         ELSE <<x>> \o sorted

RECURSIVE SortDescFrom(_, _, _, _)
SortDescFrom(options, i, acc, v) ==
    IF i > Len(options) THEN acc
    ELSE SortDescFrom(options, i + 1, InsertDesc(options[i], acc, v), v)

SortDesc(options, v) == SortDescFrom(options, 1, <<>>, v)

MaxOf(S) == CHOOSE x \in S : \A y \in S : y <= x

ucb(s, node, path) ==
    LET templates == s.tree.chem[node].templates
        explored == s.tree.chem[node].explored
        visit_count == s.tree.chem[node].visit_count
        open == SelectSeq(s.tree.succ[node],
                    LAMBDA rxn : ~ (\/ is_reaction_done(s, rxn)
                                    \/ Range(s.tree.rsucc[rxn]) \cap Range(path) # {}))
        max_average_reward ==
            MaxOf({0} \cup {s.tree.rxn[open[i]].reward_avg : i \in DOMAIN open})
        rxn_score(rxn) ==
            LET rxn_data == s.tree.rxn[rxn]
                template_probability ==
                    SumSeq([i \in DOMAIN rxn_data.templates |->
                                templates[rxn_data.templates[i]]])
            IN [n |-> exploration_weight * template_probability * visit_count
                        - rxn_data.reward_avg * (1 + rxn_data.visit_count),
                d |-> 1 + rxn_data.visit_count,
                k |-> 0]
        unexplored == SelectSeq([i \in DOMAIN templates |-> i],
                          LAMBDA t : ~ InList(t, explored))
        template_score(t) ==
            [n |-> exploration_weight * templates[t]
                     - (max_average_reward + UnexploredPenalty),
             d |-> 1,
             k |-> exploration_weight * templates[t]]
    IN [reaction_options |->
            SortDesc([i \in DOMAIN open |->
                        [score |-> rxn_score(open[i]), kind |-> "reaction",
                         task |-> open[i]]], visit_count),
        template_options |->
            SortDesc([i \in DOMAIN unexplored |->
                        [score |-> template_score(unexplored[i]), kind |-> "template",
                         task |-> unexplored[i]]], visit_count)]

\* min(candidates, key=visit_count): the first of the least visited
FirstMin(s, cands) ==
    LET i == CHOOSE i \in DOMAIN cands :
                /\ \A j \in DOMAIN cands :
                      s.tree.chem[cands[i]].visit_count <= s.tree.chem[cands[j]].visit_count
                /\ \A j \in 1..(i - 1) :
                      s.tree.chem[cands[j]].visit_count > s.tree.chem[cands[i]].visit_count
    IN cands[i]

\* the walk with template options also at out-degree max_branching
RECURSIVE select_walk_one_more(_, _, _)
select_walk_one_more(s, chem_path, rxn_path) ==
    LET leaf == chem_path[Len(chem_path)]
        u == ucb(s, leaf, chem_path)
        options == IF out_degree_chem(s, leaf) <= max_branching
                   THEN u.reaction_options \o u.template_options
                   ELSE u.reaction_options
        stuck == [ok |-> FALSE, chem_path |-> chem_path, rxn_path |-> rxn_path,
                  template |-> None]
    IN IF Len(options) = 0 THEN stuck
       ELSE LET best == SortDesc(options, s.tree.chem[leaf].visit_count)[1] IN
            IF best.kind = "reaction"
            THEN LET cands == SelectSeq(s.tree.rsucc[best.task],
                                  LAMBDA c : ~ is_chemical_done(s, c))
                 IN IF Len(cands) = 0 THEN stuck
                    ELSE select_walk_one_more(s, Append(chem_path, FirstMin(s, cands)),
                                              Append(rxn_path, best.task))
            ELSE [ok |-> TRUE, chem_path |-> chem_path, rxn_path |-> rxn_path,
                  template |-> best.task]

\* the walk that descends to a precursor whether it is done or not
RECURSIVE select_walk_any_precursor(_, _, _)
select_walk_any_precursor(s, chem_path, rxn_path) ==
    LET leaf == chem_path[Len(chem_path)]
        u == ucb(s, leaf, chem_path)
        options == IF out_degree_chem(s, leaf) < max_branching
                   THEN u.reaction_options \o u.template_options
                   ELSE u.reaction_options
        stuck == [ok |-> FALSE, chem_path |-> chem_path, rxn_path |-> rxn_path,
                  template |-> None]
    IN IF Len(options) = 0 THEN stuck
       ELSE LET best == SortDesc(options, s.tree.chem[leaf].visit_count)[1] IN
            IF best.kind = "reaction"
            THEN LET cands == s.tree.rsucc[best.task]
                 IN IF Len(cands) = 0 THEN stuck
                    ELSE select_walk_any_precursor(s, Append(chem_path, FirstMin(s, cands)),
                                                   Append(rxn_path, best.task))
            ELSE [ok |-> TRUE, chem_path |-> chem_path, rxn_path |-> rxn_path,
                  template |-> best.task]

\* _select: ok = FALSE when the walk stops at an option list that is empty
\* (the pdb.set_trace() states) or at a reaction with no precursor left.
RECURSIVE select_walk(_, _, _)
select_walk(s, chem_path, rxn_path) ==
    LET leaf == chem_path[Len(chem_path)]
        u == ucb(s, leaf, chem_path)
        options == IF out_degree_chem(s, leaf) < max_branching
                   THEN u.reaction_options \o u.template_options
                   ELSE u.reaction_options
        stuck == [ok |-> FALSE, chem_path |-> chem_path, rxn_path |-> rxn_path,
                  template |-> None]
    IN IF Len(options) = 0 THEN stuck
       ELSE LET best == SortDesc(options, s.tree.chem[leaf].visit_count)[1] IN
            IF best.kind = "reaction"
            THEN LET cands == SelectSeq(s.tree.rsucc[best.task],
                                  LAMBDA c : ~ is_chemical_done(s, c))
                 IN IF Len(cands) = 0 THEN stuck
                    ELSE select_walk(s, Append(chem_path, FirstMin(s, cands)),
                                     Append(rxn_path, best.task))
            ELSE [ok |-> TRUE, chem_path |-> chem_path, rxn_path |-> rxn_path,
                  template |-> best.task]

_select(s) == select_walk(s, <<target>>, <<>>)

\* ---- expansion ----------------------------------------------------------
\* tree.add_edge: a new successor goes last; an edge already there is kept
AddEdge(adj, u, v) == IF InList(v, adj[u]) THEN adj ELSE [adj EXCEPT ![u] = Append(@, v)]

RECURSIVE AddEdges(_, _, _, _)
AddEdges(adj, u, vs, j) ==
    IF j > Len(vs) THEN adj ELSE AddEdges(AddEdge(adj, u, vs[j]), u, vs, j + 1)

reaction_smiles(reactant_list, product) == <<reactant_list, product>>

\* the inner loop creating a node for every reactant, known or not (a
\* known one anew, without templates and price)
RECURSIVE reactant_loop_recreates(_, _, _, _, _, _)
reactant_loop_recreates(s, reactant_list, j, path, predict, lookup) ==
    IF j > Len(reactant_list) THEN [s |-> s, broke |-> FALSE]
    ELSE LET reactant == reactant_list[j] IN
         IF InList(reactant, path) THEN [s |-> s, broke |-> TRUE]
         ELSE IF ~ InList(reactant, s.chemicals)
              THEN reactant_loop_recreates(
                       create_chemical_node(s, reactant, predict[reactant], lookup[reactant]),
                       reactant_list, j + 1, path, predict, lookup)
              ELSE reactant_loop_recreates(
                       create_chemical_node(s, reactant, <<>>, None),
                       reactant_list, j + 1, path, predict, lookup)

\* the inner loop of _process_precursors over one reactant list;
\* broke = the loop left through break (no else branch)
RECURSIVE reactant_loop(_, _, _, _, _, _)
reactant_loop(s, reactant_list, j, path, predict, lookup) ==
    IF j > Len(reactant_list) THEN [s |-> s, broke |-> FALSE]
    ELSE LET reactant == reactant_list[j] IN
         IF InList(reactant, path) THEN [s |-> s, broke |-> TRUE]
         ELSE IF ~ InList(reactant, s.chemicals)
              THEN reactant_loop(
                       create_chemical_node(s, reactant, predict[reactant], lookup[reactant]),
                       reactant_list, j + 1, path, predict, lookup)
              ELSE reactant_loop(s, reactant_list, j + 1, path, predict, lookup)

\* register_reaction that, on a merge, overwrites template_score
register_reaction_last_score(s, product, template, reactant_list, score) ==
    LET rid == reaction_smiles(reactant_list, product)
        template_score == s.tree.chem[product].templates[template]
        s1 == IF InList(rid, s.reactions)
              THEN [s EXCEPT !.tree.rxn[rid].templates = Append(@, template),
                             !.tree.rxn[rid].template_score = template_score]
              ELSE [s EXCEPT !.reactions = Append(@, rid),
                             !.tree.rxn = (rid :> [fast_filter_score |-> score,
                                                   reward_avg |-> 0,
                                                   template_score |-> template_score,
                                                   templates |-> <<template>>,
                                                   visit_count |-> 0]) @@ @,
                             !.tree.rsucc = (rid :> <<>>) @@ @]
    IN [s1 EXCEPT !.tree.succ = AddEdge(@, product, rid),
                  !.tree.rsucc = AddEdges(@, rid, reactant_list, 1)]

\* register_reaction with one more edge, from the root to the reaction
register_reaction_under_root(s, product, template, reactant_list, score) ==
    LET rid == reaction_smiles(reactant_list, product)
        template_score == s.tree.chem[product].templates[template]
        s1 == IF InList(rid, s.reactions)
              THEN [s EXCEPT !.tree.rxn[rid].templates = Append(@, template),
                             !.tree.rxn[rid].template_score =
                                 IF @ >= template_score THEN @ ELSE template_score]
              ELSE [s EXCEPT !.reactions = Append(@, rid),
                             !.tree.rxn = (rid :> [fast_filter_score |-> score,
                                                   reward_avg |-> 0,
                                                   template_score |-> template_score,
                                                   templates |-> <<template>>,
                                                   visit_count |-> 0]) @@ @,
                             !.tree.rsucc = (rid :> <<>>) @@ @]
    IN [s1 EXCEPT !.tree.succ = AddEdge(AddEdge(@, product, rid), s.chemicals[1], rid),
                  !.tree.rsucc = AddEdges(@, rid, reactant_list, 1)]

\* the else branch of the inner loop: register the reaction and its edges
register_reaction(s, product, template, reactant_list, score) ==
    LET rid == reaction_smiles(reactant_list, product)
        template_score == s.tree.chem[product].templates[template]
        s1 == IF InList(rid, s.reactions)
              THEN [s EXCEPT !.tree.rxn[rid].templates = Append(@, template),
                             !.tree.rxn[rid].template_score =
                                 IF @ >= template_score THEN @ ELSE template_score]
              ELSE [s EXCEPT !.reactions = Append(@, rid),
                             !.tree.rxn = (rid :> [fast_filter_score |-> score,
                                                   reward_avg |-> 0,
                                                   template_score |-> template_score,
                                                   templates |-> <<template>>,
                                                   visit_count |-> 0]) @@ @,
                             !.tree.rsucc = (rid :> <<>>) @@ @]
    IN [s1 EXCEPT !.tree.succ = AddEdge(@, product, rid),
                  !.tree.rsucc = AddEdges(@, rid, reactant_list, 1)]

\* scores[i] = fast_filter(joined reactants of precursors[i], product);
\* predict / lookup: the template prioritizer's and the pricer's answers
RECURSIVE _process_precursors(_, _, _, _, _, _, _, _, _)
_process_precursors(s, product, template, precursors, path, i, scores, predict, lookup) ==
    IF i > Len(precursors) THEN s
    ELSE IF scores[i] < fast_filter_threshold
         THEN _process_precursors(s, product, template, precursors, path, i + 1,
                                  scores, predict, lookup)
         ELSE LET r == reactant_loop(s, precursors[i], 1, path, predict, lookup)
                  s1 == IF r.broke THEN r.s
                        ELSE register_reaction(r.s, product, template, precursors[i], scores[i])
              IN _process_precursors(s1, product, template, precursors, path, i + 1,
                                     scores, predict, lookup)

\* _expand that records the template after the one it applies
_expand_records_next(s, chem_path, template, precursors, scores, predict, lookup) ==
    LET leaf == chem_path[Len(chem_path)] IN
    IF InList(template, s.tree.chem[leaf].explored) THEN s
    ELSE _process_precursors(
             [s EXCEPT !.tree.chem[leaf].explored = Append(@, template + 1)],
             leaf, template, precursors, chem_path, 1, scores, predict, lookup)

_expand(s, chem_path, template, precursors, scores, predict, lookup) ==
    LET leaf == chem_path[Len(chem_path)] IN
    IF InList(template, s.tree.chem[leaf].explored) THEN s
    ELSE _process_precursors(
             [s EXCEPT !.tree.chem[leaf].explored = Append(@, template)],
             leaf, template, precursors, chem_path, 1, scores, predict, lookup)

\* _expand left by an exception of an adapter in the last outcome of
\* precursors: of fast_filter (j = 0, line 364), or of the template
\* prioritizer in create_chemical_node for reactant j of that outcome
\* (j > 0, line 420).  The outcomes before it are processed, and of the last
\* one the reactants before j; nothing is registered for it.
expand_until_error(s, chem_path, template, precursors, j, scores, predict, lookup) ==
    LET leaf == chem_path[Len(chem_path)]
        last == Len(precursors)
        s1 == _process_precursors(
                  [s EXCEPT !.tree.chem[leaf].explored = Append(@, template)],
                  leaf, template, SubSeq(precursors, 1, last - 1), chem_path, 1,
                  scores, predict, lookup)
    IN IF j = 0 THEN s1
       ELSE reactant_loop(s1, SubSeq(precursors[last], 1, j - 1), 1, chem_path,
                          predict, lookup).s

\* the error of the prioritizer is possible: the outcome passes the fast
\* filter, the loop reaches reactant j, and the reactant is no chemical yet
predict_is_called(s, chem_path, template, precursors, j, scores, predict, lookup) ==
    LET last == Len(precursors)
        before == expand_until_error(s, chem_path, template, precursors, j, scores,
                                     predict, lookup)
    IN /\ scores[last] >= fast_filter_threshold
       /\ \A k \in 1..j : ~ InList(precursors[last][k], chem_path)
       /\ ~ InList(precursors[last][j], before.chemicals)

\* the outcomes as far as they are processed before the error
processed_part(precursors, j) ==
    LET last == Len(precursors) IN
    IF j = 0 THEN SubSeq(precursors, 1, last - 1)
    ELSE [precursors EXCEPT ![last] = SubSeq(@, 1, j - 1)]

\* ---- back-update --------------------------------------------------------
\* position i of chem_path (1-based) is depth i - 1; its parent reaction is
\* rxn_path[i - 1], the root has none
\* the back-update without the visit count of the chemicals
RECURSIVE update_from_no_visit(_, _, _, _)
update_from_no_visit(s, chem_path, rxn_path, i) ==
    IF i < 1 THEN s
    ELSE LET chem == chem_path[i]
             depth == i - 1
             s1 == [s EXCEPT !.tree.chem[chem].min_depth =
                                 IF @ # None THEN (IF @ <= depth THEN @ ELSE depth)
                                 ELSE depth]
             s2 == is_chemical_done_update(s1, chem)
             s3 == IF i - 1 >= 1 /\ i - 1 <= Len(rxn_path)
                   THEN [s2 EXCEPT !.tree.rxn[rxn_path[i - 1]].visit_count = @ + 1]
                   ELSE s2
         IN update_from_no_visit(s3, chem_path, rxn_path, i - 1)

\* the back-update that overwrites min_depth with the index
RECURSIVE update_from_overwrites(_, _, _, _)
update_from_overwrites(s, chem_path, rxn_path, i) ==
    IF i < 1 THEN s
    ELSE LET chem == chem_path[i]
             s1 == [s EXCEPT !.tree.chem[chem].visit_count = @ + 1,
                             !.tree.chem[chem].min_depth = i - 1]
             s2 == is_chemical_done_update(s1, chem)
             s3 == IF i - 1 >= 1 /\ i - 1 <= Len(rxn_path)
                   THEN [s2 EXCEPT !.tree.rxn[rxn_path[i - 1]].visit_count = @ + 1]
                   ELSE s2
         IN update_from_overwrites(s3, chem_path, rxn_path, i - 1)

RECURSIVE update_from(_, _, _, _)
update_from(s, chem_path, rxn_path, i) ==
    IF i < 1 THEN s
    ELSE LET chem == chem_path[i]
             depth == i - 1
             s1 == [s EXCEPT !.tree.chem[chem].visit_count = @ + 1,
                             !.tree.chem[chem].min_depth =
                                 IF @ # None THEN (IF @ <= depth THEN @ ELSE depth)
                                 ELSE depth]
             s2 == is_chemical_done_update(s1, chem)
             s3 == IF i - 1 >= 1 /\ i - 1 <= Len(rxn_path)
                   THEN [s2 EXCEPT !.tree.rxn[rxn_path[i - 1]].visit_count = @ + 1]
                   ELSE s2
         IN update_from(s3, chem_path, rxn_path, i - 1)

\* the back-update run twice over the path
_update_twice(s, chem_path, rxn_path) ==
    update_from(update_from(s, chem_path, rxn_path, Len(chem_path)),
                chem_path, rxn_path, Len(chem_path))

_update(s, chem_path, rxn_path) == update_from(s, chem_path, rxn_path, Len(chem_path))

\* the chemicals a template application creates: a reactant that is no
\* chemical yet, in an outcome that passes the fast filter, with no chemical
\* of the path before it in its reactant list
NewChemicals(s, precursors, path, scores) ==
    {c \in Chems :
        /\ ~ InList(c, s.chemicals)
        /\ \E i \in DOMAIN precursors :
              /\ scores[i] >= fast_filter_threshold
              /\ \E j \in DOMAIN precursors[i] :
                    /\ precursors[i][j] = c
                    /\ \A k \in 1..(j - 1) : ~ InList(precursors[i][k], path)}

\* Chemicals are named in the order of their creation: a template
\* application that creates chemicals creates the least unused names, the
\* smaller name at the earlier place of the outcomes.  (Names are arbitrary;
\* every run is, up to renaming, such a run.)
FirstPlace(precursors, c) ==
    CHOOSE n \in 0..((MaxOutcomes + 1) * (MaxReactants + 1)) :
        /\ \E i \in DOMAIN precursors : \E j \in DOMAIN precursors[i] :
              precursors[i][j] = c /\ n = i * (MaxReactants + 1) + j
        /\ \A i \in DOMAIN precursors : \A j \in DOMAIN precursors[i] :
              precursors[i][j] = c => n <= i * (MaxReactants + 1) + j

NamedInOrder(s, precursors, new) ==
    \A c \in new : \A b \in 1..(c - 1) :
        \/ InList(b, s.chemicals)
        \/ (b \in new /\ FirstPlace(precursors, b) < FirstPlace(precursors, c))

self == [chemicals |-> chemicals, reactions |-> reactions, tree |-> tree]

\* the graph and the lists of an engine right after __init__
NewEngine == [chemicals |-> <<>>, reactions |-> <<>>, tree |-> EmptyTree]

\* clear that keeps the chemicals list
clear_keeps_chemicals(s) == [chemicals |-> s.chemicals, reactions |-> <<>>, tree |-> EmptyTree]

clear(s) == [chemicals |-> <<>>, reactions |-> <<>>, tree |-> EmptyTree]

\* one pass of the loop of build_tree on the engine state s, the adapters
\* answering precursors, scores, predict and lookup: nothing when s is done
\* or its selection walk finds no option
rollout_step(s, precursors, scores, predict, lookup) ==
    IF done(s) THEN s
    ELSE LET sel == _select(s) IN
         IF ~ sel.ok THEN s
         ELSE _update(_expand(s, sel.chem_path, sel.template, precursors, scores,
                              predict, lookup),
                      sel.chem_path, sel.rxn_path)

\* selected: what the last call of _select returned (None before the first)
NoSelection == [ok |-> FALSE, chem_path |-> <<>>, rxn_path |-> <<>>, template |-> None]

TypeOK ==
    /\ pc \in {"new", "expanding", "complete", "failed", "aborted"}
    /\ rollouts \in 0..MaxRollouts
    /\ max_branching \in BranchingOptions
    /\ max_depth \in DepthOptions
    /\ clears \in 0..MaxClears
    /\ passed_filter \in BOOLEAN

Init ==
    /\ target = None
    /\ chemicals = <<>>
    /\ reactions = <<>>
    /\ tree = EmptyTree
    /\ max_branching \in BranchingOptions
    /\ max_depth \in DepthOptions
    /\ pc = "new"
    /\ rollouts = 0
    /\ selected = NoSelection
    /\ clears = 0
    /\ fresh = NewEngine
    /\ passed_filter = FALSE

\* build_tree(t) up to its loop.  fresh is a second engine, new at the
\* last clear(), on which the same build_tree(t) runs with the same adapters.
\* passed_filter: in this build_tree, fast_filter has scored an outcome of a
\* template of the target at the threshold or above.
build_tree_initialize ==
    /\ pc = "new"
    /\ \E t \in Targets, templates \in TemplateLists, price \in Prices :
          LET s == _initialize(self, t, templates, price) IN
          /\ target' = t
          /\ chemicals' = s.chemicals
          /\ reactions' = s.reactions
          /\ tree' = s.tree
          /\ fresh' = _initialize(fresh, t, templates, price)
    /\ pc' = "expanding"
    /\ rollouts' = 0
    /\ selected' = NoSelection
    /\ passed_filter' = FALSE
    /\ UNCHANGED <<max_branching, max_depth, clears>>

\* one iteration of the while loop of build_tree: select, expand, update
_rollout ==
    /\ pc = "expanding"
    /\ ~ done(self)
    /\ rollouts < MaxRollouts
    /\ \E sel \in {_select(self)} :
       /\ sel.ok
       /\ selected' = sel
       /\ \E precursors \in PrecursorLists :
          \E scores \in [DOMAIN precursors -> FilterScores] :
          \E new \in {NewChemicals(self, precursors, sel.chem_path, scores)} :
          /\ NamedInOrder(self, precursors, new)
          /\ passed_filter' =
                (\/ passed_filter
                 \/ /\ sel.chem_path = <<target>>
                    /\ \E i \in DOMAIN scores : scores[i] >= fast_filter_threshold)
          /\ \E predict \in [new -> TemplateLists] :
             \E lookup \in [new -> Prices] :
             \E s1 \in {_expand(self, sel.chem_path, sel.template, precursors,
                                scores, predict, lookup)} :
             \E s2 \in {_update(s1, sel.chem_path, sel.rxn_path)} :
                /\ chemicals' = s2.chemicals
                /\ reactions' = s2.reactions
                /\ tree' = s2.tree
                /\ fresh' = IF fresh = self THEN s2
                             ELSE rollout_step(fresh, precursors, scores, predict, lookup)
    /\ rollouts' = rollouts + 1
    /\ UNCHANGED <<target, max_branching, max_depth, pc, clears>>

\* a rollout whose selection walk finds no option: the debugger trap
\* (pdb.set_trace()) of ucb / _select, after which nothing is selected
rollout_no_options ==
    /\ pc = "expanding"
    /\ ~ done(self)
    /\ rollouts < MaxRollouts
    /\ \E sel \in {_select(self)} :
       /\ ~ sel.ok
       /\ selected' = sel
    /\ fresh' = IF fresh = self THEN fresh ELSE rollout_step(fresh, <<>>, <<>>, <<>>, <<>>)
    /\ pc' = "failed"
    /\ rollouts' = rollouts + 1
    /\ UNCHANGED <<target, chemicals, reactions, tree, max_branching, max_depth, clears,
                   passed_filter>>

\* the while loop of build_tree ends: the tree is done, or the expansion
\* time has elapsed (the clock is free)
build_tree_complete ==
    /\ pc = "expanding"
    /\ pc' = "complete"
    /\ UNCHANGED <<target, chemicals, reactions, tree, max_branching, max_depth, rollouts,
                   selected, clears, fresh, passed_filter>>

\* clear() on an engine whose build_tree has returned or has failed; the
\* engine it is compared with from here on is a new one
call_clear ==
    /\ pc \in {"complete", "failed"}
    /\ clears < MaxClears
    /\ \E s \in {clear(self)} :
          /\ chemicals' = s.chemicals
          /\ reactions' = s.reactions
          /\ tree' = s.tree
    /\ fresh' = NewEngine
    /\ pc' = "new"
    /\ clears' = clears + 1
    /\ UNCHANGED <<target, max_branching, max_depth, rollouts, selected, passed_filter>>

\* a rollout in which fast_filter or the template prioritizer raises: the
\* exception leaves _expand, _rollout and build_tree; _update is not run
rollout_aborted ==
    /\ pc = "expanding"
    /\ ~ done(self)
    /\ rollouts < MaxRollouts
    /\ \E sel \in {_select(self)} :
       /\ sel.ok
       /\ selected' = sel
       /\ \E precursors \in PrecursorLists \ {<<>>} :
          \E j \in 0..Len(precursors[Len(precursors)]) :
          \E scores \in [DOMAIN precursors -> FilterScores] :
          \E new \in {NewChemicals(self, processed_part(precursors, j), sel.chem_path,
                                    scores)} :
          /\ NamedInOrder(self, processed_part(precursors, j), new)
          /\ \E predict \in [new -> TemplateLists] :
             \E lookup \in [new -> Prices] :
             /\ j > 0 => predict_is_called(self, sel.chem_path, sel.template, precursors,
                                           j, scores, predict, lookup)
             /\ \E s1 \in {expand_until_error(self, sel.chem_path, sel.template,
                                               precursors, j, scores, predict, lookup)} :
                   /\ chemicals' = s1.chemicals
                   /\ reactions' = s1.reactions
                   /\ tree' = s1.tree
          /\ passed_filter' =
                (\/ passed_filter
                 \/ /\ sel.chem_path = <<target>>
                    /\ \E i \in DOMAIN processed_part(precursors, j) :
                          scores[i] >= fast_filter_threshold)
    /\ pc' = "aborted"
    /\ rollouts' = rollouts + 1
    /\ UNCHANGED <<target, max_branching, max_depth, clears, fresh>>

Next ==
    \/ build_tree_initialize
    \/ _rollout
    \/ rollout_no_options
    \/ build_tree_complete
    \/ call_clear

Spec == Init /\ [][Next]_vars

\* build_tree on a new engine with adapters that may raise
NextAbort ==
    \/ build_tree_initialize
    \/ _rollout
    \/ rollout_no_options
    \/ rollout_aborted
    \/ build_tree_complete

SpecAbort == Init /\ [][NextAbort]_vars

\* ---- path extraction ----------------------------------------------------
\* to_branching (nx.dag_to_branching): a node of the branching is a walk from
\* the root, <<c0, r1, c1, ...>>; its source is the last node of the walk.
\* A path (an nx.DiGraph returned by get_paths) is the set of its nodes; its
\* edges join a walk to the walks one node longer.
Source(p) == p[Len(p)]
IsChemWalk(p) == Len(p) % 2 = 1
DepthOf(p) == (Len(p) - 1) \div 2

\* the depth test of line 528 off by one
is_path_end_late(c, _depth) ==
    Len(tree.succ[c]) = 0 \/ (max_depth # None /\ _depth > max_depth)

\* line 528: the node ends the path here
is_path_end(c, _depth) ==
    Len(tree.succ[c]) = 0 \/ (max_depth # None /\ _depth >= max_depth)

RECURSIVE get_chem_paths(_, _), get_rxn_paths(_, _), product_paths(_, _, _)
get_chem_paths(p, _depth) ==
    IF is_path_end(Source(p), _depth) THEN {{p}}
    ELSE UNION {{sub_path \cup {p} : sub_path \in get_rxn_paths(Append(p, rxn), _depth + 1)} :
                   rxn \in Range(tree.succ[Source(p)])}

\* itertools.product over the successors i.. of the reaction, each combination
\* united (nx.union_all)
product_paths(q, _depth, i) ==
    LET cs == tree.rsucc[Source(q)] IN
    IF i > Len(cs) THEN {{}}
    ELSE {a \cup b : a \in get_chem_paths(Append(q, cs[i]), _depth),
                     b \in product_paths(q, _depth, i + 1)}

get_rxn_paths(q, _depth) == {sub_path \cup {q} : sub_path \in product_paths(q, _depth, 1)}

get_paths == get_chem_paths(<<target>>, 0)

PathLeaves(path) == {p \in path : ~ \E q \in path : Len(q) = Len(p) + 1 /\ SubSeq(q, 1, Len(p)) = p}

\* _validate_path that accepts every path
_validate_path_all(path) == TRUE

\* _validate_path: all leaves are terminal
_validate_path(path) == \A v \in PathLeaves(path) : tree.chem[Source(v)].terminal

\* ---- the graph as the claims read it ------------------------------------
ChemNodes == DOMAIN tree.chem
RxnNodes == DOMAIN tree.rxn

\* chemicals one reaction step below c
ChemChildren(c) == UNION {Range(tree.rsucc[r]) : r \in Range(tree.succ[c])}

RECURSIVE ChemsBelow(_, _)
ChemsBelow(seen, frontier) ==
    IF frontier = {} THEN seen
    ELSE LET next == (UNION {ChemChildren(c) : c \in frontier}) \ seen
         IN ChemsBelow(seen \cup next, next)

\* chemicals reachable from c along one or more pairs of edges
Descendants(c) == ChemsBelow(ChemChildren(c), ChemChildren(c))

ReachableChems == {target} \cup Descendants(target)
ReachableRxns == {r \in RxnNodes : \E c \in ReachableChems : InList(r, tree.succ[c])}

\* nx.dag_to_branching raises on a graph with a cycle: nothing is returned
HasCycle == \E c \in DOMAIN tree.chem : c \in Descendants(c)

get_buyable_paths == IF HasCycle THEN {} ELSE {path \in get_paths : _validate_path(path)}

\* C1: the graph is acyclic: no chemical and no reaction node is reachable
\* from itself along directed edges.
C1_Acyclic ==
    /\ \A c \in ChemNodes : c \notin Descendants(c)
    /\ \A r \in RxnNodes : \A c \in Range(tree.rsucc[r]) :
          ~ \E d \in {c} \cup Descendants(c) : InList(r, tree.succ[d])

\* C2: once the tree is initialized the root is a chemical node, and every
\* entry of the chemicals and reactions lists is reachable from the root.
C2_AllReachableFromRoot ==
    pc # "new" =>
        /\ target \in ChemNodes
        /\ \A i \in DOMAIN chemicals : chemicals[i] \in ReachableChems
        /\ \A i \in DOMAIN reactions : reactions[i] \in ReachableRxns

\* C3: a rollout that is started never ends in the empty-options state: its
\* selection walk returns a (chem_path, rxn_path, template) triple.
C3_SelectionNeverEmpty == pc # "failed"

\* C4: in every tree get_buyable_paths returns, every leaf is a chemical
\* node with terminal = true and no chemical lies deeper than max_depth
\* reaction steps below the root.
C4_PathsEndInTerminalsWithinDepth ==
    pc # "new" =>
        \A path \in get_buyable_paths :
            /\ \A v \in PathLeaves(path) : IsChemWalk(v) /\ tree.chem[Source(v)].terminal
            /\ \A v \in path : IsChemWalk(v) => DepthOf(v) <= max_depth

\* a returned tree that uses the whole depth: a terminal leaf max_depth
\* reaction steps below the root
C4_Witness ==
    /\ pc = "complete"
    /\ \E path \in get_buyable_paths : \E v \in PathLeaves(path) : DepthOf(v) = max_depth

TargetIsBuyable ==
    /\ pc # "new"
    /\ tree.chem[target].purchase_price # None
    /\ tree.chem[target].purchase_price <= max_ppg

JustInitialized == pc = "expanding" /\ rollouts = 0

\* C5 as stated: a buyable target is terminal and done after the
\* initialization, and no rollout is performed.
C5_BuyableTargetDoneAtOnce ==
    TargetIsBuyable =>
        /\ rollouts = 0
        /\ JustInitialized => (tree.chem[target].terminal /\ tree.chem[target].done)

\* C5 amended: the initialization overrides what the price gives: a buyable
\* target has terminal = false and done = false after it, so that the
\* driver loop is not stopped by the root.
C5_BuyableTargetNotDone ==
    (TargetIsBuyable /\ JustInitialized) =>
        /\ ~ tree.chem[target].terminal
        /\ ~ tree.chem[target].done
        /\ ~ done(self)

C5_Witness == TargetIsBuyable /\ JustInitialized /\ Len(tree.chem[target].templates) > 0

\* C6 as stated: for a buyable target the finished graph has 1 chemical
\* node and 0 reaction nodes, and exactly one path is returned, the target
\* alone.
C6_BuyableTargetSinglePath ==
    (TargetIsBuyable /\ pc = "complete") =>
        /\ Len(chemicals) = 1
        /\ Len(reactions) = 0
        /\ get_buyable_paths = {{<<target>>}}

\* C6 amended: for a buyable target the initialization leaves 1 chemical
\* node and 0 reaction nodes; the tree of the target alone is never
\* returned, and no path at all while no rollout has run.
C6_BuyableTargetNoDepth0Path ==
    TargetIsBuyable =>
        /\ {<<target>>} \notin get_buyable_paths
        /\ rollouts = 0 =>
              (Len(chemicals) = 1 /\ Len(reactions) = 0 /\ get_buyable_paths = {})

C6_Witness == TargetIsBuyable /\ pc = "complete" /\ rollouts = 0

\* C7: a target without templates is done right after the initialization
\* and nothing is expanded: no rollout starts, the graph stays the root alone.
C7_NoTemplatesNoExpansion ==
    (pc # "new" /\ Len(tree.chem[target].templates) = 0) =>
        /\ tree.chem[target].done
        /\ rollouts = 0
        /\ Len(chemicals) = 1
        /\ Len(reactions) = 0

\* C8: no chemical has more than max_branching reaction children.
C8_BranchingCapped ==
    \A c \in ChemNodes : Len(tree.succ[c]) <= max_branching

\* C9: no template is applied to a chemical at index >= max_depth of the
\* selected chem_path, and a chemical at depth >= max_depth has no reaction
\* child.
C9_NoExpansionAtMaxDepth ==
    /\ selected.ok => Len(selected.chem_path) - 1 < max_depth
    /\ \A c \in ChemNodes :
          (tree.chem[c].min_depth # None /\ tree.chem[c].min_depth >= max_depth)
              => Len(tree.succ[c]) = 0

\* C10: for every reaction child x of a chemical c, the probabilities
\* templates(c)[t] of the entries t of templates(x) sum to at most 1.
C10_TemplateProbabilityAtMostOne ==
    \A c \in ChemNodes : \A x \in Range(tree.succ[c]) :
        SumSeq([i \in DOMAIN tree.rxn[x].templates |->
                    tree.chem[c].templates[tree.rxn[x].templates[i]]]) <= Scale

\* tree.predecessors(r) of a reaction node
Predecessors(r) == {c \in ChemNodes : InList(r, tree.succ[c])}

\* C11: every reaction node has exactly one predecessor, the chemical named
\* after '>>' in its identifier, also after a merge of a rediscovered reaction.
C11_ReactionHasOneParent ==
    \A r \in RxnNodes : Predecessors(r) = {r[2]}

\* a reaction below a chemical other than the root, found again by a second
\* template and merged
C11_Witness ==
    \E r \in RxnNodes :
        /\ r[2] # target
        /\ Len(tree.rxn[r].templates) = 2
        /\ tree.rxn[r].templates[1] # tree.rxn[r].templates[2]

\* C12: a chemical with terminal = true has out-degree 0, and the leaf of a
\* selection walk is never a terminal chemical.
C12_TerminalNeverExpanded ==
    /\ \A c \in ChemNodes : tree.chem[c].terminal => Len(tree.succ[c]) = 0
    /\ (pc # "new" /\ Len(selected.chem_path) > 0)
           => ~ tree.chem[Source(selected.chem_path)].terminal

\* a walk went through a reaction with a terminal reactant and chose the
\* other reactant as its leaf
C12_Witness ==
    /\ selected.ok
    /\ Len(selected.rxn_path) > 0
    /\ \E c \in Range(tree.rsucc[Source(selected.rxn_path)]) :
          /\ tree.chem[c].terminal
          /\ Len(tree.chem[c].templates) > 0
          /\ tree.chem[c].visit_count = 0

\* C13: explored(c) has no duplicates, holds only keys of templates(c), and
\* is no longer than templates(c).
C13_ExploredWithinTemplates ==
    \A c \in ChemNodes :
        LET explored == tree.chem[c].explored
            templates == tree.chem[c].templates
        IN /\ \A i, j \in DOMAIN explored : explored[i] = explored[j] => i = j
           /\ \A i \in DOMAIN explored : explored[i] \in DOMAIN templates
           /\ Len(explored) <= Len(templates)

\* a chemical below the root all of whose templates, more than one, are explored
C13_Witness ==
    \E c \in ChemNodes :
        /\ c # target
        /\ Len(tree.chem[c].templates) > 1
        /\ Len(tree.chem[c].explored) = Len(tree.chem[c].templates)

\* the indices (0 at the root) of chemical c on the chem_path that the step
\* back-updates: none unless the step is a rollout that selected a template
BackUpdatedAt(c) ==
    IF pc = "expanding" /\ pc' = "expanding" /\ rollouts' = rollouts + 1
    THEN {i - 1 : i \in {j \in DOMAIN selected'.chem_path : selected'.chem_path[j] = c}}
    ELSE {}

\* C14: over the life of a chemical node min_depth never increases and never
\* becomes unknown again, and every step leaves it at the least of its old
\* value (unknown counting as infinite) and the indices at which the step
\* back-updates the chemical: it always equals the smallest such index so far.
C14_MinDepthNeverIncreases ==
    [][\A c \in (DOMAIN tree.chem) \cap (DOMAIN tree'.chem) :
          LET old == tree.chem[c].min_depth
              new == tree'.chem[c].min_depth
              seen == BackUpdatedAt(c) \cup (IF old = None THEN {} ELSE {old})
          IN /\ old # None => (new # None /\ new <= old)
             /\ IF seen = {} THEN new = None
                ELSE new \in seen /\ \A i \in seen : new <= i]_vars

\* min_depth has decreased: the last rollout back-updated c at index 1 for
\* the first time, through the one reaction of the root that was walked, and c
\* had been back-updated before, so that its min_depth was at least 2
C14_Witness ==
    \E c \in ChemNodes :
        /\ pc = "expanding"
        /\ selected.ok
        /\ Len(selected.chem_path) >= 2
        /\ selected.chem_path[2] = c
        /\ tree.chem[c].min_depth = 1
        /\ tree.chem[c].visit_count >= 2
        /\ \A r \in Range(tree.succ[target]) :
              InList(c, tree.rsucc[r]) =>
                  tree.rxn[r].visit_count = (IF r = selected.rxn_path[1] THEN 1 ELSE 0)

\* C15: after every completed rollout visit_count(c) >= |explored(c)| - 1
\* for every chemical node c.
C15_VisitsCoverExplored ==
    \A c \in ChemNodes : tree.chem[c].visit_count >= Len(tree.chem[c].explored) - 1

\* after rollouts, a chemical below the root with two templates explored and
\* no visit beyond the two rollouts that explored them
C15_Witness ==
    /\ pc = "expanding"
    /\ rollouts >= 2
    /\ \E c \in ChemNodes :
          /\ c # target
          /\ Len(tree.chem[c].explored) = 2
          /\ tree.chem[c].visit_count = 2

\* the step is a rollout that selected a template, expanded and back-updated
IsRollout == pc = "expanding" /\ pc' = "expanding" /\ rollouts' = rollouts + 1

\* C16: a reactant that already is a chemical node is reused: the chemicals
\* list never holds a SMILES twice and lists just the chemical nodes, and a
\* rollout leaves every chemical node that is not on its chem_path with all
\* its attributes and gives a chemical node new incoming edges only from the
\* reactions it creates that name the chemical as a reactant, one from each.
C16_NodeReuse ==
    [][/\ \A i, j \in DOMAIN chemicals' : chemicals'[i] = chemicals'[j] => i = j
       /\ Range(chemicals') = DOMAIN tree'.chem
       /\ IsRollout =>
             \A c \in DOMAIN tree.chem :
                /\ c \in DOMAIN tree'.chem
                /\ c \notin Range(selected'.chem_path) => tree'.chem[c] = tree.chem[c]
                /\ {r \in DOMAIN tree'.rxn : InList(c, tree'.rsucc[r])}
                      \ {r \in DOMAIN tree.rxn : InList(c, tree.rsucc[r])}
                   = {r \in (DOMAIN tree'.rxn) \ (DOMAIN tree.rxn) : InList(c, r[1])}]_vars

\* the reactions with an edge to chemical c
ParentReactions(c) == {r \in RxnNodes : InList(c, tree.rsucc[r])}

\* the last rollout created a reaction r (its only template is the one the
\* rollout applied to its product) that names a chemical q which had been
\* expanded before and has another parent reaction: one node q, two
\* predecessors
C16_Witness ==
    /\ pc = "expanding"
    /\ selected.ok
    /\ \E q \in ChemNodes : \E r \in ParentReactions(q) :
          /\ r[2] = Source(selected.chem_path)
          /\ tree.rxn[r].templates = <<selected.template>>
          /\ q \notin Range(selected.chem_path)
          /\ Len(tree.chem[q].explored) > 0
          /\ Cardinality(ParentReactions(q)) = 2

\* C17: after clear(), the engine holds nothing of its earlier run, and
\* build_tree(t) on it gives, rollout by rollout, the graph (nodes, edges,
\* attributes) and the chemicals and reactions lists that the same
\* build_tree(t) gives on a new engine with the same adapter answers.
C17_ClearThenBuildEqualsFresh ==
    clears > 0 =>
        /\ chemicals = fresh.chemicals
        /\ reactions = fresh.reactions
        /\ tree = fresh.tree
        /\ pc = "new" => (chemicals = <<>> /\ reactions = <<>> /\ tree = EmptyTree)

\* a cleared engine rebuilt by at least three rollouts to a graph of at
\* least two reactions
C17_Witness ==
    /\ clears > 0
    /\ pc = "complete"
    /\ rollouts >= 3
    /\ Len(reactions) >= 2
    /\ Len(chemicals) >= 3

\* C18: is_chemical_done(c, update=True) called twice in a row returns the
\* same value both times, and the second call changes no attribute of any node.
C18_ChemicalDoneIdempotent ==
    \A c \in ChemNodes :
        LET first == is_chemical_done_update(self, c)
            second == is_chemical_done_update(first, c)
        IN /\ chemical_done_value(first, c) = chemical_done_value(self, c)
           /\ is_chemical_done(second, c) = is_chemical_done(first, c)
           /\ second = first

\* a chemical whose stored flag is not what a recomputation gives: the first
\* call changes the flag (from false to true, below a done reaction that the
\* last rollout left), the second has nothing to change
C18_Witness ==
    \E c \in ChemNodes :
        /\ pc = "expanding"
        /\ ~ tree.chem[c].done
        /\ chemical_done_value(self, c)
        /\ Len(tree.succ[c]) > 0

\* no outcome of a template of the target has passed the fast filter in this
\* build_tree: the run is one of a target all of whose outcomes score below
\* fast_filter_threshold
AllTargetOutcomesFiltered == pc # "new" /\ ~ passed_filter

\* C19: if every outcome of every template of the target scores below
\* fast_filter_threshold, build_tree ends without a failed selection, the
\* root is done once all its templates are explored, the graph is the root
\* alone without edges, no precursor chemical is created, and
\* get_buyable_paths returns no path.
C19_AllFilteredTargetEndsAlone ==
    AllTargetOutcomesFiltered =>
        /\ pc # "failed"
        /\ Len(tree.chem[target].explored) = Len(tree.chem[target].templates)
               => (rollouts > 0 => tree.chem[target].done)
        /\ chemicals = <<target>>
        /\ reactions = <<>>
        /\ ChemNodes = {target} /\ RxnNodes = {} /\ tree.succ[target] = <<>>
        /\ get_buyable_paths = {}

\* C20: with max_branching = 0 no reaction node is ever created.
C20_NoReactionWithoutBranching ==
    max_branching = 0 => (reactions = <<>> /\ RxnNodes = {})

\* max_branching = 0 and a rollout was started on a target that has templates
C20_Witness ==
    /\ max_branching = 0
    /\ pc # "new"
    /\ rollouts > 0
    /\ Len(tree.chem[target].templates) > 0

\* C22: an outcome with a reactant on the chem_path adds nothing to the
\* graph and the lists, wherever the reactant stands in the outcome: every
\* chemical node but the root was added for an outcome that was registered,
\* so it has a parent reaction, and the chemicals list holds the root and
\* reactants of registered reactions only.
C22_CycleGuardAllOrNothing ==
    pc # "new" =>
        /\ \A c \in ChemNodes \ {target} : ParentReactions(c) # {}
        /\ \A i \in DOMAIN chemicals :
              \/ chemicals[i] = target
              \/ \E j \in DOMAIN reactions : InList(chemicals[i], reactions[j][1])

\* C23: after every rollout the stored done flag of every chemical node, on
\* or off the path, is the value a recomputation from the graph gives.
C23_DoneFlagNeverStale ==
    (pc = "expanding" /\ rollouts > 0) =>
        \A c \in ChemNodes : tree.chem[c].done = chemical_done_value(self, c)

\* C24: template_score of a reaction x below chemical c is the greatest
\* templates(c)[t] over the entries t of templates(x).
C24_TemplateScoreIsMax ==
    \A x \in RxnNodes :
        LET probs == {tree.chem[x[2]].templates[tree.rxn[x].templates[i]] :
                         i \in DOMAIN tree.rxn[x].templates}
        IN /\ tree.rxn[x].template_score \in probs
           /\ \A p \in probs : p <= tree.rxn[x].template_score

\* a reaction found by one template and found again by a later one of
\* another probability
C24_Witness ==
    \E x \in RxnNodes :
        /\ Len(tree.rxn[x].templates) = 2
        /\ tree.chem[x[2]].templates[tree.rxn[x].templates[1]]
              # tree.chem[x[2]].templates[tree.rxn[x].templates[2]]

\* C25: a rollout appends one template, not in it before, to explored of
\* the last chemical of its chem_path and leaves explored of every other
\* chemical as it was; it adds 1 to visit_count of each chemical of chem_path
\* and of each reaction of rxn_path and changes no other visit_count (a node
\* the rollout creates has visit_count 0).
C25_RolloutFrame ==
    [][IsRollout =>
          LET leaf == Source(selected'.chem_path)
              onpath(c) == IF InList(c, selected'.chem_path) THEN 1 ELSE 0
              onrxn(r) == IF InList(r, selected'.rxn_path) THEN 1 ELSE 0
          IN /\ ~ InList(selected'.template, tree.chem[leaf].explored)
             /\ tree'.chem[leaf].explored =
                   Append(tree.chem[leaf].explored, selected'.template)
             /\ \A c \in (DOMAIN tree.chem) \ {leaf} :
                   tree'.chem[c].explored = tree.chem[c].explored
             /\ \A c \in DOMAIN tree'.chem :
                   tree'.chem[c].visit_count =
                       (IF c \in DOMAIN tree.chem THEN tree.chem[c].visit_count ELSE 0)
                       + onpath(c)
             /\ \A r \in DOMAIN tree'.rxn :
                   tree'.rxn[r].visit_count =
                       (IF r \in DOMAIN tree.rxn THEN tree.rxn[r].visit_count ELSE 0)
                       + onrxn(r)]_vars

\* the last rollout walked to a chemical below the root through a reaction
\* that has another reactant, and created a reaction there
C25_Witness ==
    /\ pc = "expanding"
    /\ selected.ok
    /\ Len(selected.rxn_path) >= 1
    /\ Len(tree.rsucc[selected.rxn_path[1]]) = 2
    /\ Len(tree.succ[Source(selected.chem_path)]) > 0
    /\ tree.chem[target].visit_count = rollouts + 1

\* C26: once the stored done flag of a chemical other than the root is
\* true, no later selection walk holds the chemical, and its attributes
\* (explored, visit_count, min_depth, done and the rest) and its out-edges
\* never change as long as the node exists.
C26_DoneIsPermanent ==
    [][\A c \in ((DOMAIN tree.chem) \cap (DOMAIN tree'.chem)) \ {target} :
          tree.chem[c].done =>
              /\ tree'.chem[c] = tree.chem[c]
              /\ tree'.succ[c] = tree.succ[c]
              /\ (pc = "expanding" /\ rollouts' = rollouts + 1)
                     => ~ InList(c, selected'.chem_path)]_vars

\* the last rollout went through a reaction one of whose reactants is done,
\* though not terminal and visited before, and walked on to another reactant
C26_Witness ==
    /\ pc = "expanding"
    /\ selected.ok
    /\ Len(selected.rxn_path) >= 1
    /\ \E c \in Range(tree.rsucc[selected.rxn_path[1]]) :
          /\ ~ InList(c, selected.chem_path)
          /\ tree.chem[c].done
          /\ ~ tree.chem[c].terminal
          /\ tree.chem[c].visit_count >= 1

\* the templates that chemical nodes hold, in all
RECURSIVE TemplatesOf(_)
TemplatesOf(cs) ==
    IF cs = <<>> THEN 0 ELSE Len(tree.chem[Head(cs)].templates) + TemplatesOf(Tail(cs))

\* C27: the loop of build_tree ends by done becoming true: while the tree is
\* not done the next selection walk returns a template to apply and the
\* loop never stops in a failure state; a selection walk holds no more
\* chemicals than there are, and there are no more rollouts than templates.
C27_LoopEndsByDone ==
    /\ pc # "failed"
    /\ (pc = "expanding" /\ ~ done(self)) => _select(self).ok
    /\ pc \in {"expanding", "complete"} =>
          /\ Len(selected.chem_path) <= Len(chemicals)
          /\ rollouts <= TemplatesOf(chemicals)

\* C21: the graph that a build_tree aborted by an adapter error leaves
\* behind satisfies the invariants: the root is a chemical node and every
\* node is reachable from it (I1), no cycle (I3), no SMILES and no reaction
\* identifier twice (I4), one parent per reaction (I5), explored within
\* templates (I7), no reaction below a terminal chemical (I8).
C21_AbortLeavesValidGraph ==
    pc = "aborted" =>
        /\ target \in ChemNodes
        /\ Range(chemicals) \subseteq ReachableChems
        /\ Range(reactions) \subseteq ReachableRxns
        /\ ~ HasCycle
        /\ Cardinality(Range(chemicals)) = Len(chemicals)
        /\ Cardinality(Range(reactions)) = Len(reactions)
        /\ \A r \in RxnNodes : Cardinality(Predecessors(r)) = 1
        /\ \A c \in ChemNodes :
              /\ Range(tree.chem[c].explored) \subseteq DOMAIN tree.chem[c].templates
              /\ tree.chem[c].terminal => Len(tree.succ[c]) = 0
====
